---- MODULE Spec2Model ----
(***************************************************************************)
(* Predictive scaling engine of k8s-llm-monitor                            *)
(* (src/src/monitor/auto_scaler.py, class AutoScaler).                     *)
(*                                                                         *)
(* Numbers.  Python floats are modelled as exact rationals <<n, d>> with   *)
(* d > 0; request rates are non-negative integers.  IEEE rounding and the  *)
(* degenerate scale_threshold = 0 (ZeroDivisionError) are not modelled.    *)
(* Time is counted in steps of 60 s, the step of the range query and the   *)
(* period of the control loop.                                             *)
(***************************************************************************)
EXTENDS Integers, Sequences, FiniteSets, TLC

(***************************************************************************)
(* State.                                                                  *)
(*   config            self.config.scaling                                 *)
(*   metric_history    self.metric_history, service -> samples             *)
(*   k8s_replicas      the orchestrator: replica count of each deployment, *)
(*                     read by _get_current_replicas, set by a patch that  *)
(*                     succeeds                                            *)
(*   now               datetime.now(), in 60 s steps                       *)
(*   pc, svc, passes   position of monitor_and_scale / predict_and_scale,  *)
(*                     index of the service in turn, passes started        *)
(*   metrics, prediction, current_replicas, target_replicas,               *)
(*   scaling_decision  the locals of predict_and_scale in the current pass *)
(*   result            what the pass returned                              *)
(*   gate_calls        calls of _should_scale in the current pass          *)
(*   patch_calls       patch requests issued in the current pass           *)
(*   applied_at        service -> timestamps of the decisions whose patch  *)
(*                     succeeded, in order                                 *)
(*   calls, call       direct calls of a method (as the test suite makes   *)
(*                     them): how many, and the last one with its          *)
(*                     arguments and result                                *)
(*   exec_ret          what _execute_scaling returned in the current pass  *)
(*   read_calls        orchestrator reads issued in the current pass       *)
(*   evaluated         services whose pass was started in the current      *)
(*                     iteration of the while loop, in order               *)
(*   applied_target    service -> target of the last patch that succeeded  *)
(*   last_applied      service -> the last-applied time the engine keeps   *)
(*                     for the cooldown; the code has the key and no store *)
(*   history_before    the service's history when the current pass (or     *)
(*                     direct call of _predict_load) began                 *)
(*   api_request       the ScalingRequest of /scale/predict being served   *)
(*   manual            the /services/{service}/scale request in flight     *)
(*   requests          API requests accepted so far                        *)
(***************************************************************************)

VARIABLES config, metric_history, k8s_replicas, now, pc, svc, passes,
          metrics, prediction, current_replicas, target_replicas,
          scaling_decision, result, gate_calls, patch_calls, applied_at,
          calls, call,
          exec_ret, read_calls, evaluated, applied_target, last_applied,
          history_before, api_request, manual, requests

vars == <<config, metric_history, k8s_replicas, now, pc, svc, passes,
          metrics, prediction, current_replicas, target_replicas,
          scaling_decision, result, gate_calls, patch_calls, applied_at,
          calls, call,
          exec_ret, read_calls, evaluated, applied_target, last_applied,
          history_before, api_request, manual, requests>>

(* ------------------------------ bounds --------------------------------- *)

\* passes of predict_and_scale the control loop is followed for
MaxPasses == 4
\* direct calls of _predict_load that are followed
MaxCalls == 3
\* largest current replica count handed to _calculate_target_replicas
MaxCurrent == 6
\* HTTP requests (on-demand evaluations and manual scalings) that are followed
MaxRequests == 3

(* --------------------------- program constants ------------------------- *)

HistoryCap == 1000
ColdStart == 10
RecentWindow == 30
MinRecent == 5
MinConfidenceSamples == 5
ConfidenceWindow == 10
SleepSteps == 1
CooldownSteps == 5

\* Optional[T]: None is the empty sequence, a value x is <<x>>
None == <<>>
Some(x) == <<x>>

Services == <<"api-gateway", "log-analyzer">>
ServiceSet == {Services[i] : i \in 1..Len(Services)}

(* ------------------------------ arithmetic ----------------------------- *)

Max(a, b) == IF a >= b THEN a ELSE b
Min(a, b) == IF a <= b THEN a ELSE b

\* int(n / d) of Python: truncation toward zero, d > 0
Trunc(n, d) == IF n >= 0 THEN n \div d ELSE -((-n) \div d)

RLt(a, b) == a[1] * b[2] < b[1] * a[2]
RLe(a, b) == a[1] * b[2] <= b[1] * a[2]
REq(a, b) == a[1] * b[2] = b[1] * a[2]
RMax(a, b) == IF RLt(a, b) THEN b ELSE a
RMin(a, b) == IF RLt(b, a) THEN b ELSE a

RECURSIVE SumOver(_, _, _)
\* sum of F[i] for i in lo..hi
SumOver(F, lo, hi) == IF lo > hi THEN 0 ELSE F[lo] + SumOver(F, lo + 1, hi)

\* s[-n:]
LastN(s, n) == IF Len(s) <= n THEN s ELSE SubSeq(s, Len(s) - n + 1, Len(s))

\* s[:n]
FirstN(s, n) == IF Len(s) <= n THEN s ELSE SubSeq(s, 1, n)

(* ------------------------------ data model ----------------------------- *)

\* MetricData: the collector fills cpu_usage, memory_usage and response_time
\* with the constant 0.0, so a sample is its timestamp and its request rate.
MetricData(t, r) == [timestamp |-> t, request_rate |-> r]

ScalingDecision(s, cur, tgt, conf, t) ==
    [service |-> s, current_replicas |-> cur, target_replicas |-> tgt,
     confidence |-> conf, timestamp |-> t]

\* ScalingConfig defaults: scale_threshold 0.8, min_replicas 2, max_replicas 20
DefaultConfig == [scale_threshold |-> <<4, 5>>, min_replicas |-> 2, max_replicas |-> 20]

(* ------------------------------ input sets ----------------------------- *)

\* request-rate series a range query returns (oldest first)
RateMenu == { <<>>, <<1>>, <<1, 1, 1, 1, 1>>, <<3, 0, 3, 0, 3>>, <<0, 0, 0, 0, 0>> }

\* the samples of a query answered at time t: one point per step, the last at t
Stamp(rates, t) ==
    [i \in 1..Len(rates) |-> MetricData(t - (Len(rates) - i), rates[i])]

\* replica counts the deployments start with
InitialReplicas == {1, 3, 20}

\* configurations, forecasts and sample lists handed to the policy directly
PolicyConfigs ==
    { DefaultConfig,
      [scale_threshold |-> <<100, 1>>, min_replicas |-> 2, max_replicas |-> 20],
      [scale_threshold |-> <<1, 1>>, min_replicas |-> 1, max_replicas |-> 4],
      [scale_threshold |-> <<1, 1>>, min_replicas |-> 5, max_replicas |-> 3] }

PolicyForecasts ==
    { <<0, 1>>, <<3, 10>>, <<4, 5>>, <<17, 20>>, <<1, 1>>, <<10, 1>>,
      <<50, 1>>, <<100, 1>>, <<220, 1>> }

PolicyRates == { a \o b \o c : a \in RateMenu, b \in RateMenu, c \in {<<>>, <<2, 1>>, <<1, 2, 1>>} }

PolicyConfidences ==
    { <<1, 10>>, <<3, 10>>, <<1, 2>>, <<51, 100>>, <<4, 5>>, <<9, 10>>, <<1, 1>> }

(* --------------------------- scaling policy ---------------------------- *)

TargetNoUpperLimit(cfg, predicted_load, cur) ==
    LET thr == cfg.scale_threshold
        scale_factor == <<predicted_load[1] * thr[2], predicted_load[2] * thr[1]>>
        raw == IF RLt(thr, predicted_load)
               THEN Max(cur + 1, Trunc(cur * scale_factor[1], scale_factor[2]))
               ELSE cur
    IN  Max(cfg.min_replicas, raw)

TargetNoPlusOne(cfg, predicted_load, cur) ==
    LET thr == cfg.scale_threshold
        scale_factor == <<predicted_load[1] * thr[2], predicted_load[2] * thr[1]>>
        raw == IF RLt(thr, predicted_load)
               THEN Max(cur, Trunc(cur * scale_factor[1], scale_factor[2]))
               ELSE cur
    IN  Min(cfg.max_replicas, Max(cfg.min_replicas, raw))

TargetAdditiveOnly(cfg, predicted_load, cur) ==
    LET thr == cfg.scale_threshold
        raw == IF RLt(thr, predicted_load) THEN cur + 1 ELSE cur
    IN  Min(cfg.max_replicas, Max(cfg.min_replicas, raw))

TargetAtThreshold(cfg, predicted_load, cur) ==
    LET thr == cfg.scale_threshold
        scale_factor == <<predicted_load[1] * thr[2], predicted_load[2] * thr[1]>>
        raw == IF RLe(thr, predicted_load)
               THEN Max(cur + 1, Trunc(cur * scale_factor[1], scale_factor[2]))
               ELSE cur
    IN  Min(cfg.max_replicas, Max(cfg.min_replicas, raw))

\* _calculate_target_replicas
calculate_target_replicas(cfg, predicted_load, cur) ==
    LET thr == cfg.scale_threshold
        scale_factor == <<predicted_load[1] * thr[2], predicted_load[2] * thr[1]>>
        raw == IF RLt(thr, predicted_load)
               THEN Max(cur + 1, Trunc(cur * scale_factor[1], scale_factor[2]))
               ELSE cur
    IN  Min(cfg.max_replicas, Max(cfg.min_replicas, raw))

(* ------------------------------ confidence ----------------------------- *)

\* np.var(rates): the mean of the squared deviations from the mean,
\* sum_i (y_i - S/n)^2 / n  =  sum_i (n*y_i - S)^2 / n^3
NpVar(rates) ==
    LET n == Len(rates)
        S == SumOver(rates, 1, n)
        dev2 == [i \in 1..n |-> (n * rates[i] - S) * (n * rates[i] - S)]
    IN  <<SumOver(dev2, 1, n), n * n * n>>

RequestRates(ms) == [i \in 1..Len(ms) |-> ms[i].request_rate]

ConfidenceFirstWindow(ms) ==
    IF Len(ms) < MinConfidenceSamples
    THEN <<3, 10>>
    ELSE LET variance == NpVar(RequestRates(FirstN(ms, ConfidenceWindow)))
             inv == <<variance[2], variance[2] + variance[1]>>
         IN  RMax(<<1, 10>>, RMin(<<9, 10>>, inv))

ConfidenceNoMinimumSamples(ms) ==
    IF ms = <<>>
    THEN <<3, 10>>
    ELSE LET variance == NpVar(RequestRates(LastN(ms, ConfidenceWindow)))
             inv == <<variance[2], variance[2] + variance[1]>>
         IN  RMax(<<1, 10>>, RMin(<<9, 10>>, inv))

\* _calculate_confidence
calculate_confidence(ms) ==
    IF Len(ms) < MinConfidenceSamples
    THEN <<3, 10>>
    ELSE LET variance == NpVar(RequestRates(LastN(ms, ConfidenceWindow)))
             inv == <<variance[2], variance[2] + variance[1]>>
         IN  RMax(<<1, 10>>, RMin(<<9, 10>>, inv))

(* ------------------------------- the gate ------------------------------ *)

GateAtLeastHalf(decision) == RLe(<<1, 2>>, decision.confidence)

GateApprovesAll(decision) == TRUE

\* _should_scale: the cooldown key is computed and never used
should_scale(decision) == RLt(<<1, 2>>, decision.confidence)

(* ------------------------------ forecaster ----------------------------- *)

\* history after extend(metrics) and the [-1000:] slice
RecordKeepOldest(hist, ms) == FirstN(hist \o ms, HistoryCap)

RecordNothing(hist, ms) == hist

Record(hist, ms) == LastN(hist \o ms, HistoryCap)

\* LinearRegression().fit(X, y).predict([[k]]) with X = 0..k-1:
\* slope = A/B, intercept = mean(y) - slope*mean(x), value at k
OlsNext(ys) ==
    LET k == Len(ys)
        xs == [i \in 1..k |-> i - 1]
        Sx == SumOver(xs, 1, k)
        Sy == SumOver(ys, 1, k)
        cross == [i \in 1..k |-> (k * xs[i] - Sx) * (k * ys[i] - Sy)]
        sq == [i \in 1..k |-> (k * xs[i] - Sx) * (k * xs[i] - Sx)]
        A == SumOver(cross, 1, k)
        B == SumOver(sq, 1, k)
    IN  <<Sy * B + A * (k * k - Sx), k * B>>

LastRate(ms) == <<ms[Len(ms)].request_rate, 1>>

\* which return statement of _predict_load is taken
Branch(hist, fit_ok) ==
    IF Len(hist) < ColdStart THEN "cold"
    ELSE IF Len(LastN(hist, RecentWindow)) < MinRecent THEN "short"
    ELSE IF fit_ok THEN "fit" ELSE "fallback"

ForecastNoFloor(hist, ms, fit_ok) ==
    LET b == Branch(hist, fit_ok) IN
    IF b = "cold" THEN (IF ms # <<>> THEN LastRate(ms) ELSE <<0, 1>>)
    ELSE IF b = "fit"
         THEN OlsNext(RequestRates(LastN(hist, RecentWindow)))
         ELSE LastRate(hist)

\* value returned by _predict_load; hist is the history after recording ms
Forecast(hist, ms, fit_ok) ==
    LET b == Branch(hist, fit_ok) IN
    IF b = "cold" THEN (IF ms # <<>> THEN LastRate(ms) ELSE <<0, 1>>)
    ELSE IF b = "fit"
         THEN LET p == OlsNext(RequestRates(LastN(hist, RecentWindow)))
              IN  IF RLt(<<0, 1>>, p) THEN p ELSE <<0, 1>>
         ELSE LastRate(hist)

(* ------------------------------ initial state -------------------------- *)

NoCall == [fn |-> "none", service |-> "", metrics |-> <<>>, history |-> <<>>,
           config |-> DefaultConfig, predicted_load |-> <<0, 1>>,
           current_replicas |-> 0, confidence |-> <<0, 1>>, branch |-> "",
           ret_q |-> <<0, 1>>, ret_n |-> 0, ret_b |-> FALSE]

\* no /services/{service}/scale request in flight
NoManual == [pc |-> "idle", decision |-> None]

\* everything of a new engine but its histories
InitLocals ==
    /\ now = 0
    /\ pc = "idle"
    /\ svc = 1
    /\ passes = 0
    /\ metrics = None
    /\ prediction = None
    /\ current_replicas = None
    /\ target_replicas = None
    /\ scaling_decision = None
    /\ result = None
    /\ gate_calls = 0
    /\ patch_calls = 0
    /\ applied_at = [s \in ServiceSet |-> <<>>]
    /\ calls = 0
    /\ call = NoCall
    /\ exec_ret = None
    /\ read_calls = 0
    /\ evaluated = <<>>
    /\ applied_target = [s \in ServiceSet |-> None]
    /\ last_applied = [s \in ServiceSet |-> None]
    /\ history_before = <<>>
    /\ api_request = None
    /\ manual = NoManual
    /\ requests = 0

InitEngine ==
    /\ metric_history = [s \in ServiceSet |-> <<>>]
    /\ InitLocals

Init ==
    /\ config = DefaultConfig
    /\ k8s_replicas \in [ServiceSet -> InitialReplicas]
    /\ InitEngine

(* ------------------- direct calls of the policy methods ---------------- *)

apiVars == <<api_request, manual, requests>>

passVars == <<now, pc, svc, passes, metrics, prediction, current_replicas,
              target_replicas, scaling_decision, result, gate_calls,
              patch_calls, applied_at, exec_ret, read_calls, evaluated,
              applied_target, last_applied, apiVars>>

CallCalculateTarget ==
    \E p \in PolicyForecasts, cur \in 0..MaxCurrent :
        /\ call' = [NoCall EXCEPT !.fn = "_calculate_target_replicas",
                                  !.config = config,
                                  !.predicted_load = p,
                                  !.current_replicas = cur,
                                  !.ret_n = calculate_target_replicas(config, p, cur)]
        /\ calls' = calls
        /\ UNCHANGED <<config, metric_history, k8s_replicas, passVars,
                       history_before>>

CallCalculateConfidence ==
    \E rates \in PolicyRates :
        /\ call' = [NoCall EXCEPT !.fn = "_calculate_confidence",
                                  !.metrics = Stamp(rates, now),
                                  !.ret_q = calculate_confidence(Stamp(rates, now))]
        /\ calls' = calls
        /\ UNCHANGED <<config, metric_history, k8s_replicas, passVars,
                       history_before>>

CallShouldScale ==
    \E c \in PolicyConfidences, s \in ServiceSet :
        LET d == ScalingDecision(s, 2, 4, c, now) IN
        /\ call' = [NoCall EXCEPT !.fn = "_should_scale",
                                  !.service = s,
                                  !.confidence = c,
                                  !.ret_b = should_scale(d)]
        /\ calls' = calls
        /\ UNCHANGED <<config, metric_history, k8s_replicas, passVars,
                       history_before>>

InitPolicy ==
    /\ config \in PolicyConfigs
    /\ k8s_replicas = [s \in ServiceSet |-> 3]
    /\ InitEngine

NextPolicy == CallCalculateTarget \/ CallCalculateConfidence \/ CallShouldScale

SpecPolicy == InitPolicy /\ [][NextPolicy]_vars

(* --------------------- direct calls of _predict_load ------------------- *)

CallPredictLoad ==
    \E s \in ServiceSet, rates \in RateMenu, fit_ok \in BOOLEAN :
        LET ms == Stamp(rates, now)
            hist == Record(metric_history[s], ms)
        IN  /\ calls < MaxCalls
            /\ calls' = calls + 1
            /\ history_before' = metric_history[s]
            /\ metric_history' = [metric_history EXCEPT ![s] = hist]
            /\ call' = [NoCall EXCEPT !.fn = "_predict_load",
                                      !.service = s,
                                      !.metrics = ms,
                                      !.history = hist,
                                      !.branch = Branch(hist, fit_ok),
                                      !.ret_q = Forecast(hist, ms, fit_ok)]
            /\ UNCHANGED <<config, k8s_replicas, passVars>>

InitForecast ==
    /\ config = DefaultConfig
    /\ k8s_replicas = [s \in ServiceSet |-> 3]
    /\ InitEngine

NextForecast == CallPredictLoad

SpecForecast == InitForecast /\ [][NextForecast]_vars

\* a range query answered with five samples of request rate 1
SteadyBatch == <<1, 1, 1, 1, 1>>

\* the history of a service after k loop iterations, at times -k .. -1, that
\* each recorded Stamp(SteadyBatch, t)
Steady(k) ==
    [i \in 1..(k * Len(SteadyBatch)) |->
        Stamp(SteadyBatch, ((i - 1) \div Len(SteadyBatch)) - k)
            [((i - 1) % Len(SteadyBatch)) + 1]]

\* histories one batch short of the cap and at the cap
LongHistories == { Steady(199), Steady(200) }

\* _predict_load called on an engine that has been running for hours
InitHistory ==
    /\ config = DefaultConfig
    /\ k8s_replicas = [s \in ServiceSet |-> 3]
    /\ InitLocals
    /\ metric_history \in [ServiceSet -> LongHistories]

SpecHistory == InitHistory /\ [][NextForecast]_vars

(* ------------------- the control loop and one pass --------------------- *)

service == Services[svc]

DecisionAlways(target, cur) == TRUE

\* predict_and_scale: "if target_replicas != current_replicas"
NeedsDecision(target, cur) == target # cur

OnlyNoneIsNoMetrics(m) == m = None

\* predict_and_scale: "if not metrics", true of None and of the empty list
NoMetrics(m) == m = None \/ m[1] = <<>>

ReadErrorEscapes(stage, ok) == stage = "read" /\ ~ok

\* whether a failed call (ok = FALSE) leaves its method as an exception:
\* _collect_metrics, _get_current_replicas and _execute_scaling wrap their
\* I/O in try / except Exception and return None or False
Escapes(stage, ok) == FALSE

RetryOnFailure(ok) == IF ok THEN 1 ELSE 2

\* patch requests one call of _execute_scaling issues
PatchAttempts(ok) == 1

PatchCurrent(k8s, d) == [k8s EXCEPT ![d.service] = d.current_replicas]

\* patch_namespaced_deployment_scale(name = decision.service,
\* body = {"spec": {"replicas": decision.target_replicas}}) on an
\* orchestrator that stores the count it is given
Patched(k8s, d) == [k8s EXCEPT ![d.service] = d.target_replicas]

StopsOnFailure(failed) == ~failed

\* monitor_and_scale: the loop body has no break or return and catches
\* Exception, so the loop goes on whether or not the pass failed
LoopSurvives(failed) == TRUE

ReturnedOnlyOnSuccess(decision, ok) == IF ok THEN decision ELSE None

\* predict_and_scale: the value of _execute_scaling is dropped and the
\* decision is returned
Returned(decision, ok) == decision

\* a stage of the current pass failed
PassFailed ==
    \/ pc = "raised"
    \/ metrics = None
    \/ (read_calls > 0 /\ current_replicas = None)
    \/ exec_ret = Some(FALSE)

\* the locals of a fresh call of predict_and_scale(Services[i])
EnterPass(i) ==
    /\ pc' = "collect"
    /\ metrics' = None
    /\ prediction' = None
    /\ current_replicas' = None
    /\ target_replicas' = None
    /\ scaling_decision' = None
    /\ result' = None
    /\ exec_ret' = None
    /\ gate_calls' = 0
    /\ patch_calls' = 0
    /\ read_calls' = 0
    /\ history_before' = metric_history[Services[i]]

\* monitor_and_scale: the loop body calls predict_and_scale(service)
StartPass ==
    /\ pc = "idle"
    /\ passes < MaxPasses
    /\ passes' = passes + 1
    /\ evaluated' = Append(evaluated, service)
    /\ EnterPass(svc)
    /\ UNCHANGED <<config, metric_history, k8s_replicas, now, svc, applied_at,
                   applied_target, last_applied, apiVars, calls, call>>

\* _collect_metrics: None on an exception or a non-200 answer, else the
\* parsed samples; predict_and_scale returns None when there are none
Collect ==
    /\ pc = "collect"
    /\ \E ok \in BOOLEAN, rates \in RateMenu :
          IF Escapes("collect", ok)
          THEN /\ metrics' = None
               /\ pc' = "raised"
          ELSE /\ metrics' = IF ok THEN Some(Stamp(rates, now)) ELSE None
               /\ pc' = IF NoMetrics(metrics') THEN "return" ELSE "forecast"
    /\ UNCHANGED <<config, metric_history, k8s_replicas, now, svc, passes,
                   prediction, current_replicas, target_replicas,
                   scaling_decision, result, gate_calls, patch_calls,
                   applied_at, exec_ret, read_calls, evaluated, applied_target,
                   last_applied, history_before, apiVars, calls, call>>

\* _predict_load: record the samples, then forecast
PredictLoad ==
    /\ pc = "forecast"
    /\ \E fit_ok \in BOOLEAN :
          LET ms == metrics[1]
              hist == Record(metric_history[service], ms)
          IN  /\ metric_history' = [metric_history EXCEPT ![service] = hist]
              /\ prediction' = Some(Forecast(hist, ms, fit_ok))
    /\ pc' = "read"
    /\ UNCHANGED <<config, k8s_replicas, now, svc, passes, metrics,
                   current_replicas, target_replicas, scaling_decision, result,
                   gate_calls, patch_calls, applied_at, exec_ret, read_calls,
                   evaluated, applied_target, last_applied, history_before,
                   apiVars, calls, call>>

\* _get_current_replicas: None when the read raises
GetCurrentReplicas ==
    /\ pc = "read"
    /\ read_calls' = read_calls + 1
    /\ \E ok \in BOOLEAN :
          IF Escapes("read", ok)
          THEN /\ current_replicas' = None
               /\ pc' = "raised"
          ELSE /\ current_replicas' = IF ok THEN Some(k8s_replicas[service]) ELSE None
               /\ pc' = IF ok THEN "decide" ELSE "return"
    /\ UNCHANGED <<config, metric_history, k8s_replicas, now, svc, passes,
                   metrics, prediction, target_replicas, scaling_decision,
                   result, gate_calls, patch_calls, applied_at, exec_ret,
                   evaluated, applied_target, last_applied, history_before,
                   apiVars, calls, call>>

\* _calculate_target_replicas and, when the target differs, the decision
Decide ==
    /\ pc = "decide"
    /\ LET cur == current_replicas[1]
           target == calculate_target_replicas(config, prediction[1], cur)
       IN  /\ target_replicas' = Some(target)
           /\ IF NeedsDecision(target, cur)
              THEN /\ scaling_decision' =
                        Some(ScalingDecision(service, cur, target,
                                             calculate_confidence(metrics[1]), now))
                   /\ pc' = "gate"
              ELSE /\ scaling_decision' = None
                   /\ pc' = "return"
    /\ UNCHANGED <<config, metric_history, k8s_replicas, now, svc, passes,
                   metrics, prediction, current_replicas, result, gate_calls,
                   patch_calls, applied_at, exec_ret, read_calls, evaluated,
                   applied_target, last_applied, history_before, apiVars,
                   calls, call>>

\* _should_scale
Gate ==
    /\ pc = "gate"
    /\ gate_calls' = gate_calls + 1
    /\ pc' = IF should_scale(scaling_decision[1]) THEN "execute" ELSE "return"
    /\ UNCHANGED <<config, metric_history, k8s_replicas, now, svc, passes,
                   metrics, prediction, current_replicas, target_replicas,
                   scaling_decision, result, patch_calls, applied_at, exec_ret,
                   read_calls, evaluated, applied_target, last_applied,
                   history_before, apiVars, calls, call>>

\* _execute_scaling: one patch request, True or False returned; nothing is
\* stored about the time of the action; predict_and_scale returns the
\* decision either way
ExecuteScaling ==
    /\ pc = "execute"
    /\ \E ok \in BOOLEAN :
          LET d == scaling_decision[1] IN
          /\ patch_calls' = patch_calls + PatchAttempts(ok)
          /\ k8s_replicas' = IF ok THEN Patched(k8s_replicas, d) ELSE k8s_replicas
          /\ applied_at' = IF ok
                            THEN [applied_at EXCEPT ![d.service] = Append(@, d.timestamp)]
                            ELSE applied_at
          /\ applied_target' = IF ok
                                THEN [applied_target EXCEPT ![d.service] = Some(d.target_replicas)]
                                ELSE applied_target
          /\ IF Escapes("execute", ok)
             THEN /\ exec_ret' = None
                  /\ result' = None
                  /\ pc' = "raised"
             ELSE /\ exec_ret' = Some(ok)
                  /\ result' = Returned(scaling_decision, ok)
                  /\ pc' = "return"
    /\ UNCHANGED <<config, metric_history, now, svc, passes, metrics,
                   prediction, current_replicas, target_replicas,
                   scaling_decision, gate_calls, read_calls, evaluated,
                   last_applied, history_before, apiVars, calls, call>>

\* monitor_and_scale: back in the for loop (a decision is logged, an exception
\* is caught and logged), then the next service or the sleep
EndPass ==
    /\ pc \in {"return", "raised"}
    /\ api_request = None
    /\ IF ~LoopSurvives(PassFailed)
       THEN /\ svc' = svc
            /\ pc' = "stopped"
       ELSE IF svc < Len(Services)
       THEN /\ svc' = svc + 1
            /\ pc' = "idle"
       ELSE /\ svc' = svc
            /\ pc' = "sleep"
    /\ UNCHANGED <<config, metric_history, k8s_replicas, now, passes, metrics,
                   prediction, current_replicas, target_replicas,
                   scaling_decision, result, gate_calls, patch_calls,
                   applied_at, exec_ret, read_calls, evaluated, applied_target,
                   last_applied, history_before, apiVars, calls, call>>

\* monitor_and_scale: asyncio.sleep(60), then the while loop starts over
Sleep ==
    /\ pc = "sleep"
    /\ now' = now + SleepSteps
    /\ svc' = 1
    /\ pc' = "idle"
    /\ evaluated' = <<>>
    /\ UNCHANGED <<config, metric_history, k8s_replicas, passes, metrics,
                   prediction, current_replicas, target_replicas,
                   scaling_decision, result, gate_calls, patch_calls,
                   applied_at, exec_ret, read_calls, applied_target,
                   last_applied, history_before, apiVars, calls, call>>

Next ==
    \/ StartPass
    \/ Collect
    \/ PredictLoad
    \/ GetCurrentReplicas
    \/ Decide
    \/ Gate
    \/ ExecuteScaling
    \/ EndPass
    \/ Sleep

Spec == Init /\ [][Next]_vars

\* The loop under its scheduling: monitor_and_scale is one asyncio task whose
\* awaits all complete (an executor call returns or raises, the sleep ends),
\* so a step that can be taken is eventually taken.
InitLive ==
    /\ config = DefaultConfig
    /\ k8s_replicas = [s \in ServiceSet |-> 3]
    /\ InitEngine

SpecLive == InitLive /\ [][Next]_vars /\ WF_vars(Next)

(* ------------------------------ HTTP API ------------------------------- *)

\* target_replicas values of POST /services/{service}/scale
ManualTargets == {2, 10}

\* POST /scale/predict: predict_scaling awaits predict_and_scale(request.service);
\* request.force is carried by the request and read nowhere
ApiPredictScaling ==
    /\ pc = "idle"
    /\ api_request = None
    /\ requests < MaxRequests
    /\ \E i \in 1..Len(Services), force \in BOOLEAN :
          /\ api_request' = Some([service |-> Services[i], force |-> force])
          /\ svc' = i
          /\ EnterPass(i)
    /\ requests' = requests + 1
    /\ UNCHANGED <<config, metric_history, k8s_replicas, now, passes,
                   evaluated, applied_at, applied_target, last_applied,
                   manual, calls, call>>

\* predict_scaling: the ScalingResponse is built from what the pass returned
ApiRespond ==
    /\ pc \in {"return", "raised"}
    /\ api_request # None
    /\ api_request' = None
    /\ pc' = "idle"
    /\ UNCHANGED <<config, metric_history, k8s_replicas, now, svc, passes,
                   metrics, prediction, current_replicas, target_replicas,
                   scaling_decision, result, gate_calls, patch_calls,
                   applied_at, exec_ret, read_calls, evaluated, applied_target,
                   last_applied, history_before, manual, requests, calls, call>>

\* manual_scale: reads the replica count (an absent or zero count ends the
\* request), builds a decision with confidence 1.0 and hands
\* _execute_scaling to the background tasks
ManualRequest ==
    /\ manual.pc = "idle"
    /\ requests < MaxRequests
    /\ requests' = requests + 1
    /\ \E s \in ServiceSet, tgt \in ManualTargets, ok \in BOOLEAN :
          LET cur == IF ok THEN Some(k8s_replicas[s]) ELSE None IN
          IF cur = None \/ cur = Some(0)
          THEN manual' = manual
          ELSE manual' = [pc |-> "pending",
                          decision |-> Some(ScalingDecision(s, cur[1], tgt,
                                                            <<1, 1>>, now))]
    /\ UNCHANGED <<config, metric_history, k8s_replicas, now, pc, svc, passes,
                   metrics, prediction, current_replicas, target_replicas,
                   scaling_decision, result, gate_calls, patch_calls,
                   applied_at, exec_ret, read_calls, evaluated, applied_target,
                   last_applied, history_before, api_request, calls, call>>

\* the background task: _execute_scaling(decision) of a manual request
ManualExecute ==
    /\ manual.pc = "pending"
    /\ \E ok \in BOOLEAN :
          LET d == manual.decision[1] IN
          IF ok
          THEN /\ k8s_replicas' = Patched(k8s_replicas, d)
               /\ applied_at' = [applied_at EXCEPT
                                    ![d.service] = Append(@, d.timestamp)]
               /\ applied_target' = [applied_target EXCEPT
                                        ![d.service] = Some(d.target_replicas)]
          ELSE UNCHANGED <<k8s_replicas, applied_at, applied_target>>
    /\ manual' = NoManual
    /\ UNCHANGED <<config, metric_history, now, pc, svc, passes, metrics,
                   prediction, current_replicas, target_replicas,
                   scaling_decision, result, gate_calls, patch_calls, exec_ret,
                   read_calls, evaluated, last_applied, history_before,
                   api_request, requests, calls, call>>

InitApi ==
    /\ config = DefaultConfig
    /\ k8s_replicas = [s \in ServiceSet |-> 3]
    /\ InitEngine

NextApi ==
    \/ ApiPredictScaling
    \/ Collect
    \/ PredictLoad
    \/ GetCurrentReplicas
    \/ Decide
    \/ Gate
    \/ ExecuteScaling
    \/ ApiRespond
    \/ ManualRequest
    \/ ManualExecute

SpecApi == InitApi /\ [][NextApi]_vars

(* =============================== claims ================================ *)

IsTargetCall == call.fn = "_calculate_target_replicas"
AboveThreshold == RLt(call.config.scale_threshold, call.predicted_load)

\* floor(n / d) for n >= 0 and d > 0, by its defining inequality
Floor(n, d) == CHOOSE k \in 0..n : k * d <= n /\ n < (k + 1) * d

\* floor(currentReplicas * forecast / scaleThreshold) of the last call
FloorProduct ==
    Floor(call.current_replicas * call.predicted_load[1] * call.config.scale_threshold[2],
          call.predicted_load[2] * call.config.scale_threshold[1])

Clamp(x, lo, hi) == LET y == IF x < lo THEN lo ELSE x IN IF y > hi THEN hi ELSE y

\* C1: with minReplicas <= maxReplicas, every target computed by
\* _calculate_target_replicas lies between minReplicas and maxReplicas.
C1_TargetWithinLimits ==
    (IsTargetCall /\ call.config.min_replicas <= call.config.max_replicas)
        => /\ call.config.min_replicas <= call.ret_n
           /\ call.ret_n <= call.config.max_replicas

\* a count above maxReplicas under scale-up pressure is brought down to the limit
C1_Witness ==
    /\ IsTargetCall
    /\ AboveThreshold
    /\ call.config.min_replicas <= call.config.max_replicas
    /\ call.current_replicas > call.config.max_replicas
    /\ call.ret_n = call.config.max_replicas

\* C2 as stated: whenever forecast > scaleThreshold the target is at least
\* currentReplicas + 1, for every current replica count.
C2_AlwaysAtLeastPlusOne ==
    (IsTargetCall /\ AboveThreshold) => call.ret_n >= call.current_replicas + 1

\* C2 amended: whenever forecast > scaleThreshold and currentReplicas is below
\* maxReplicas, the target is at least currentReplicas + 1, also when
\* floor(currentReplicas * forecast / scaleThreshold) equals currentReplicas.
C2_PlusOneBelowMax ==
    (IsTargetCall /\ AboveThreshold
        /\ call.current_replicas < call.config.max_replicas)
        => call.ret_n >= call.current_replicas + 1

\* the multiplicative factor rounds to the current value and the target is one more
C2_Witness ==
    /\ IsTargetCall
    /\ AboveThreshold
    /\ call.current_replicas > 0
    /\ call.current_replicas < call.config.max_replicas
    /\ FloorProduct = call.current_replicas
    /\ call.ret_n = call.current_replicas + 1

\* C3: for forecast > scaleThreshold the target is exactly
\* clamp(max(current + 1, floor(current * forecast / scaleThreshold)), min, max);
\* current = 2, forecast = 220, threshold = 100, limits [2, 20] give 4.
C3_ScaleUpFormula ==
    /\ (IsTargetCall /\ AboveThreshold)
          => call.ret_n =
               Clamp(IF FloorProduct > call.current_replicas + 1
                     THEN FloorProduct ELSE call.current_replicas + 1,
                     call.config.min_replicas, call.config.max_replicas)
    /\ (IsTargetCall /\ call.current_replicas = 2
          /\ call.predicted_load = <<220, 1>>
          /\ call.config = [scale_threshold |-> <<100, 1>>,
                            min_replicas |-> 2, max_replicas |-> 20])
          => call.ret_n = 4

\* the example of the specification: the multiplicative term wins over + 1
C3_Witness ==
    /\ IsTargetCall
    /\ call.current_replicas = 2
    /\ call.predicted_load = <<220, 1>>
    /\ call.config.scale_threshold = <<100, 1>>
    /\ FloorProduct = 4
    /\ call.ret_n = 4

\* C5: whenever forecast <= scaleThreshold and min <= current <= max, the
\* target is the current replica count.
C5_NoPressureKeepsCurrent ==
    (IsTargetCall /\ ~AboveThreshold
        /\ call.config.min_replicas <= call.current_replicas
        /\ call.current_replicas <= call.config.max_replicas)
        => call.ret_n = call.current_replicas

\* current = 5, forecast = 50, threshold = 100 keeps 5
C5_Witness ==
    /\ IsTargetCall
    /\ call.current_replicas = 5
    /\ call.predicted_load = <<50, 1>>
    /\ call.config.scale_threshold = <<100, 1>>
    /\ call.ret_n = 5

IsPredictCall == call.fn = "_predict_load"

\* C6 as stated: after recording, a history of fewer than 10 samples makes
\* _predict_load return the request rate of the last sample of that history,
\* and 0 when the history is empty.
C6_ColdStartLastSample ==
    (IsPredictCall /\ Len(call.history) < ColdStart)
        => REq(call.ret_q,
               IF call.history = <<>> THEN <<0, 1>>
               ELSE <<call.history[Len(call.history)].request_rate, 1>>)

\* C7: for non-negative request rates the value returned by _predict_load is
\* never negative, on whichever branch it is computed.
C7_ForecastNonNegative ==
    IsPredictCall => call.ret_q[2] > 0 /\ call.ret_q[1] >= 0

\* a falling series whose fitted line is below zero at the next index
C7_Witness ==
    /\ IsPredictCall
    /\ call.branch = "fit"
    /\ OlsNext(RequestRates(LastN(call.history, RecentWindow)))[1] < 0
    /\ call.ret_q[1] = 0

IsConfidenceCall == call.fn = "_calculate_confidence"

\* 1 / (1 + variance) over the request rates of the last up-to-10 samples,
\* the variance taken as mean of squares minus square of the mean
InverseSpread(ms) ==
    LET n == Len(ms)
        lo == IF n > 10 THEN n - 9 ELSE 1
        m == n - lo + 1
        y == [i \in 1..n |-> ms[i].request_rate]
        sq == [i \in 1..n |-> ms[i].request_rate * ms[i].request_rate]
        S1 == SumOver(y, lo, n)
        S2 == SumOver(sq, lo, n)
    IN  <<m * m, m * m + m * S2 - S1 * S1>>

\* C8: _calculate_confidence returns 0.3 for fewer than 5 samples and
\* otherwise clamp(1 / (1 + variance of the last up-to-10 rates), 0.1, 0.9),
\* a value within [0.1, 0.9].
C8_ConfidenceFormula ==
    IsConfidenceCall =>
        IF Len(call.metrics) < 5
        THEN call.ret_q = <<3, 10>>
        ELSE LET x == InverseSpread(call.metrics)
                 expected == IF RLt(x, <<1, 10>>) THEN <<1, 10>>
                             ELSE IF RLt(<<9, 10>>, x) THEN <<9, 10>> ELSE x
             IN  /\ REq(call.ret_q, expected)
                 /\ RLe(<<1, 10>>, call.ret_q)
                 /\ RLe(call.ret_q, <<9, 10>>)

\* more than 10 samples, and a confidence strictly inside the limits
C8_Witness ==
    /\ IsConfidenceCall
    /\ Len(call.metrics) > 10
    /\ RLt(<<1, 10>>, call.ret_q)
    /\ RLt(call.ret_q, <<9, 10>>)

IsGateCall == call.fn = "_should_scale"

\* C9: _should_scale approves a decision exactly when its confidence is
\* strictly greater than 0.5; 0.3 and 0.5 are rejected, 0.8 is approved.
C9_GateThreshold ==
    IsGateCall =>
        /\ call.ret_b = (2 * call.confidence[1] > call.confidence[2])
        /\ (call.confidence \in {<<3, 10>>, <<1, 2>>} => call.ret_b = FALSE)
        /\ (call.confidence = <<4, 5>> => call.ret_b = TRUE)

\* the boundary: a decision of confidence exactly 0.5 is rejected
C9_Witness ==
    /\ IsGateCall
    /\ call.confidence = <<1, 2>>
    /\ call.ret_b = FALSE

\* C4: in a pass whose computed target equals the current replica count no
\* decision is produced, the gate is not consulted and no set-replica-count
\* request is issued.
C4_NoOpPass ==
    (target_replicas # None /\ target_replicas = current_replicas)
        => /\ scaling_decision = None
           /\ result = None
           /\ gate_calls = 0
           /\ patch_calls = 0
           /\ pc \notin {"gate", "execute"}

\* a pass under scale-up pressure at the replica limit: target = current,
\* and the pass has returned None
C4_Witness ==
    /\ pc = "return"
    /\ metrics # None
    /\ target_replicas # None
    /\ target_replicas = current_replicas
    /\ RLt(config.scale_threshold, prediction[1])
    /\ result = None

\* C10: two scaling actions the gate let through are never applied to the
\* same service less than cooldownPeriod apart.
C10_CooldownRespected ==
    \A s \in ServiceSet :
        \A i \in 1..(Len(applied_at[s]) - 1) :
            applied_at[s][i + 1] - applied_at[s][i] >= CooldownSteps

\* C11: a call of _execute_scaling issues exactly one set-replica-count
\* request whatever the outcome; when the request fails the call returns
\* False, without raising and without a second attempt.
C11_OneRequestNoRetry ==
    /\ patch_calls <= 1
    /\ (exec_ret # None => patch_calls = 1)
    /\ (exec_ret = Some(FALSE) => pc \notin {"raised", "stopped", "execute"})

\* the patch failed: False came back after one request and the pass returned
C11_Witness ==
    /\ pc = "return"
    /\ exec_ret = Some(FALSE)
    /\ patch_calls = 1
    /\ k8s_replicas[service] = scaling_decision[1].current_replicas

\* C12: when the patch succeeds _execute_scaling returns True and the
\* service's last-applied time is decision.timestamp; when it fails the
\* last-applied time is what it was.
C12_LastAppliedRecorded ==
    /\ (exec_ret = Some(TRUE)
          => last_applied[scaling_decision[1].service]
               = Some(scaling_decision[1].timestamp))
    /\ (exec_ret = Some(FALSE)
          => last_applied[scaling_decision[1].service] # Some(scaling_decision[1].timestamp))

\* C13: once a patch has succeeded, the next read of that service's replica
\* count returns the target of that patch.
C13_RoundTrip ==
    (pc = "decide" /\ applied_target[service] # None)
        => current_replicas = applied_target[service]

\* a later pass reads back the target an earlier decision set
C13_Witness ==
    /\ pc = "decide"
    /\ applied_target[service] # None
    /\ current_replicas = applied_target[service]
    /\ Len(applied_at[service]) = 1

\* C14 (in every state): a failure in one service's pass neither stops the loop nor keeps the
\* remaining services from being evaluated in the same iteration: the
\* services are evaluated in order, the sleep is reached only after all of
\* them, and the loop always has a next step.
C14_LoopSurvivesFailures ==
    /\ pc # "stopped"
    /\ Len(evaluated) <= Len(Services)
    /\ evaluated = SubSeq(Services, 1, Len(evaluated))
    /\ (pc = "sleep" => evaluated = Services)
    /\ (pc \in {"collect", "forecast", "read", "decide", "gate", "execute", "return"}
          => Len(evaluated) = svc)
    /\ (passes < MaxPasses => ENABLED Next)

\* C14 (whole claim): the isolation above holds in every state, and whatever
\* fails, the loop goes through every pass of the modelled run, service after
\* service and iteration after iteration, and finishes the last one.
C14_FailureIsolation ==
    /\ []C14_LoopSurvivesFailures
    /\ <>(passes = MaxPasses /\ pc = "idle")

\* in a later iteration the first service's pass has failed and the loop
\* stands at the second service
C14_Witness ==
    /\ now >= 1
    /\ pc = "idle"
    /\ svc = 2
    /\ PassFailed
    /\ evaluated = <<Services[1]>>
    /\ ENABLED StartPass

\* C15: when the metrics source fails or yields no samples the pass returns
\* None without forecasting: the history is what it was, the orchestrator is
\* neither read nor written.
C15_NoMetricsSkipsPass ==
    (pc = "return" /\ (metrics = None \/ metrics = Some(<<>>)))
        => /\ result = None
           /\ prediction = None
           /\ current_replicas = None
           /\ metric_history[service] = history_before
           /\ read_calls = 0
           /\ patch_calls = 0

\* an empty answer for a service that already has a history
C15_Witness ==
    /\ pc = "return"
    /\ metrics = Some(<<>>)
    /\ history_before # <<>>
    /\ metric_history[service] = history_before
    /\ read_calls = 0

\* C17: in every reachable state the entries of each service's history are
\* non-decreasing in timestamp.
C17_TimestampsSorted ==
    \A s \in ServiceSet :
        \A i \in 1..(Len(metric_history[s]) - 1) :
            metric_history[s][i].timestamp <= metric_history[s][i + 1].timestamp

\* C20: predict_and_scale never raises: whichever of the metrics query, the
\* orchestrator read and the orchestrator write fail, it returns None or the
\* decision.
C20_NeverRaises ==
    /\ pc # "raised"
    /\ (pc = "return" => (result = None \/ result = scaling_decision))
    /\ (pc = "return" /\ exec_ret # None => result = scaling_decision /\ result # None)

\* the orchestrator read failed and the pass returned None
C20_Witness ==
    /\ pc = "return"
    /\ read_calls = 1
    /\ current_replicas = None
    /\ result = None

\* C16: after _predict_load has recorded a batch, the service's history is
\* the most recent 1000 entries of (previous history followed by the batch,
\* in order); no history is ever longer than 1000.
C16_MostRecentThousand ==
    /\ \A s \in ServiceSet : Len(metric_history[s]) <= 1000
    /\ IsPredictCall =>
          LET all == history_before \o call.metrics
              n == Len(all)
              m == IF n > 1000 THEN 1000 ELSE n
              h == metric_history[call.service]
          IN  /\ Len(h) = m
              /\ \A i \in 1..m : h[i] = all[n - m + i]

\* a batch of five recorded on a full history: the five oldest entries go
C16_Witness ==
    /\ IsPredictCall
    /\ Len(history_before) = 1000
    /\ Len(call.metrics) = 5
    /\ Len(metric_history[call.service]) = 1000
    /\ metric_history[call.service][1000] = call.metrics[5]
    /\ metric_history[call.service][1] = history_before[6]
    /\ metric_history[call.service][1] # history_before[1]

\* C18: an on-demand evaluation with force = true applies and returns a
\* decision whose confidence is <= 0.5; with force = false the same decision
\* is suppressed.
C18_ForceBypassesGate ==
    (/\ pc = "return"
     /\ api_request # None
     /\ scaling_decision # None
     /\ RLe(scaling_decision[1].confidence, <<1, 2>>))
        => IF api_request[1].force
           THEN /\ patch_calls = 1
                /\ result = scaling_decision
           ELSE /\ patch_calls = 0
                /\ result = None

\* C19: evaluations of one service are serialized: when a pass is about to
\* issue its set-replica-count, the service's replica count is still the one
\* the pass read and computed its target from.
C19_Serialized ==
    pc = "execute"
        => k8s_replicas[scaling_decision[1].service]
             = scaling_decision[1].current_replicas

\* C21: while an I/O call of one service's pass is outstanding and services
\* of the iteration are still to be evaluated, the loop can start the pass of
\* another service.
C21_SlowCallDoesNotDelay ==
    (/\ pc \in {"collect", "read", "execute"}
     /\ Len(evaluated) < Len(Services)
     /\ passes < MaxPasses)
        => ENABLED StartPass

\* the stage changes a pass of predict_and_scale can make
StageOrder ==
    { <<"collect", "forecast">>, <<"collect", "return">>,
      <<"forecast", "read">>,
      <<"read", "decide">>, <<"read", "return">>,
      <<"decide", "gate">>, <<"decide", "return">>,
      <<"gate", "execute">>, <<"gate", "return">>,
      <<"execute", "return">> }

PassStages == {"collect", "forecast", "read", "decide", "gate", "execute"}

\* what a pass has behind it when it is about to issue, or has issued, its
\* set-replica-count request
ReadyToPatch ==
    /\ metrics # None
    /\ metrics[1] # <<>>
    /\ prediction # None
    /\ read_calls = 1
    /\ current_replicas # None
    /\ scaling_decision # None
    /\ scaling_decision[1].current_replicas = current_replicas[1]
    /\ scaling_decision[1].target_replicas # scaling_decision[1].current_replicas
    /\ gate_calls = 1
    /\ RLt(<<1, 2>>, scaling_decision[1].confidence)

\* C22: within a pass the stages follow collect -> record/forecast -> read ->
\* decide -> gate -> execute, each pass leaving the order only to return; a
\* set-replica-count request is issued only after, in the same pass, metrics
\* were collected, the replica count was read, a decision with target #
\* current was built and the gate approved it; a decision the gate rejected
\* never reaches the orchestrator.
C22_StagesInOrder ==
    /\ []((pc = "execute" \/ patch_calls > 0) => ReadyToPatch)
    /\ []((gate_calls = 1 /\ pc # "gate"
            /\ RLe(scaling_decision[1].confidence, <<1, 2>>))
           => patch_calls = 0 /\ exec_ret = None /\ pc # "execute")
    /\ [][(pc \in PassStages) => (<<pc, pc'>> \in StageOrder)]_vars
    /\ [][(patch_calls' > patch_calls) => (pc = "execute" /\ pc' = "return")]_vars
    /\ [][(k8s_replicas' # k8s_replicas) => (pc = "execute" /\ ReadyToPatch)]_vars

\* an approved decision was applied at the end of the full stage sequence
C22_Witness ==
    /\ pc = "return"
    /\ patch_calls = 1
    /\ exec_ret = Some(TRUE)
    /\ ReadyToPatch
    /\ k8s_replicas[service] = scaling_decision[1].target_replicas

C24_DecisionReturnedEitherWay ==
    /\ (pc = "return" /\ gate_calls = 1
         /\ RLt(<<1, 2>>, scaling_decision[1].confidence))
          => (result # None /\ result = scaling_decision /\ exec_ret # None)
    /\ (pc = "return" /\ exec_ret = Some(FALSE))
          => /\ result = scaling_decision
             /\ result # None
             /\ result[1].target_replicas # k8s_replicas[service]
             /\ k8s_replicas[service] = current_replicas[1]

\* the write failed and the decision came back
C24_Witness ==
    /\ pc = "return"
    /\ exec_ret = Some(FALSE)
    /\ result # None
    /\ result = scaling_decision
    /\ k8s_replicas[service] = result[1].current_replicas
    /\ k8s_replicas[service] # result[1].target_replicas

\* the variance of the request rates of the last up-to-10 samples is below 1:
\* mean of squares minus square of the mean, times the squared count
SpreadBelowOne(ms) ==
    LET n == Len(ms)
        lo == IF n > 10 THEN n - 9 ELSE 1
        m == n - lo + 1
        y == [i \in 1..n |-> ms[i].request_rate]
        sq == [i \in 1..n |-> ms[i].request_rate * ms[i].request_rate]
    IN  m * SumOver(sq, lo, n) - SumOver(y, lo, n) * SumOver(y, lo, n) < m * m

\* C25: a pass issues a set-replica-count request only if its batch has at
\* least 5 samples whose last up-to-10 request rates have a variance strictly
\* below 1; a pass with a batch of fewer than 5 samples leaves the
\* orchestrator as it is.
C25_PatchNeedsSteadyBatch ==
    /\ (pc = "execute" \/ patch_calls > 0)
          => (Len(metrics[1]) >= 5 /\ SpreadBelowOne(metrics[1]))
    /\ (pc \in {"forecast", "read", "decide", "gate", "execute", "return"}
         /\ metrics # None /\ Len(metrics[1]) < 5)
          => /\ patch_calls = 0
             /\ pc # "execute"
             /\ (current_replicas # None
                   => k8s_replicas[service] = current_replicas[1])

\* a patch after a batch of five equal rates
C25_Witness ==
    /\ pc = "return"
    /\ patch_calls = 1
    /\ Len(metrics[1]) = 5
    /\ SpreadBelowOne(metrics[1])
    /\ Len(metric_history[service]) > Len(metrics[1])

\* C26: when metrics were collected and the replica read fails, the pass
\* returns None and issues no set-replica-count request, and the service's
\* history is already the previous history followed by the pass's samples.
C26_RecordedBeforeFailedRead ==
    /\ (read_calls = 1 /\ current_replicas = None)
          => /\ pc \in {"return", "idle", "sleep"}
             /\ result = None
             /\ patch_calls = 0
             /\ scaling_decision = None
             /\ metrics # None
             /\ metrics[1] # <<>>
    /\ (pc = "return" /\ read_calls = 1 /\ current_replicas = None)
          => LET h == metric_history[service]
                 ms == metrics[1]
             IN  /\ Len(h) = Len(history_before) + Len(ms)
                 /\ \A i \in 1..Len(history_before) : h[i] = history_before[i]
                 /\ \A i \in 1..Len(ms) : h[Len(history_before) + i] = ms[i]

\* a pass whose read failed has recorded samples the history already held
C26_Witness ==
    /\ pc = "return"
    /\ read_calls = 1
    /\ current_replicas = None
    /\ result = None
    /\ history_before # <<>>
    /\ Len(metric_history[service]) > Len(history_before)
    /\ \E i \in 1..Len(history_before) : history_before[i] = metrics[1][1]

====
